---- MODULE Spec2Model ----
(***************************************************************************)
(* Model of the two entry points of coding-challenge-shorts:               *)
(*   scripts/render-snippet.js  (standalone snippet image renderer)        *)
(*   main.js                    (reel pipeline: snippet, image, video)     *)
(* and of the pure helpers they use (resolveTheme, resolveLanguage,        *)
(* escapeHtml, buildHtml, estimateHeight).                                 *)
(*                                                                         *)
(* Every `await` of the two main functions is one action: the action is    *)
(* the completion of the awaited call (successful or rejected) followed by *)
(* the synchronous code up to the next await.                              *)
(***************************************************************************)
EXTENDS Integers, Sequences, FiniteSets, TLC

VARIABLES
    script,      \* which entry point runs: "render-snippet" | "main" | "none"
    pc,          \* the await the running main() is suspended at
    opts,        \* render-snippet.js: the parsed command line (parseArgs result)
    env,         \* the collaborators' data: bundled ids, stdin kind
    resolved,    \* render-snippet.js: [theme, lang] after resolution
    browser,     \* "none" | "open" | "closed"
    closeCalls,  \* number of browser.close() invocations
    calls,       \* collaborator calls completed so far, in order: <<op, ok>>
    err,         \* the pending exception's message, or NoError
    stderr,      \* lines written to process.stderr / console.error
    stdout,      \* lines written to process.stdout / console.log
    exitCode,    \* Running, 0 or 1
    files,       \* filesystem entries created by the run
    clip,        \* render-snippet.js: the value of `clip` (line 299)
    call,        \* pure-function specifications: the inputs drawn
    ret          \* pure-function specifications: the value returned

vars == <<script, pc, opts, env, resolved, browser, closeCalls, calls, err,
          stderr, stdout, exitCode, files, clip, call, ret>>

pipelineVars == <<script, pc, opts, env, resolved, browser, closeCalls, calls,
                  err, stderr, stdout, exitCode, files, clip>>

----------------------------------------------------------------------------
(* JavaScript values that are not strings *)

Undefined == "<undefined>"     \* an option that was not given
BareFlag  == "<true>"          \* parseArgs stores `true` for a flag without value
NoError   == "<none>"
Running   == -1

\* Math.floor(n / d) and Math.ceil(n / d) for d > 0
Floor(n, d) == n \div d
Ceil(n, d) == -((-n) \div d)

\* `a || b` for the option values of the model (undefined is the only falsy one:
\* parseArgs never stores an empty string, a flag followed by "" stores true)
OrDefault(value, fallback) == IF value = Undefined THEN fallback ELSE value

----------------------------------------------------------------------------
(* DEFAULTS of scripts/render-snippet.js *)

DEFAULTS_lang  == "javascript"
DEFAULTS_theme == "nord"

----------------------------------------------------------------------------
(* Identifier resolution, scripts/render-snippet.js:210-230.               *)
(* `available` is Object.keys(bundled...): a sequence without duplicates.  *)

Includes(available, x) == \E i \in 1..Len(available) : available[i] = x

\* the last resort without available[0]
FirstOr_FallbackOnly(available, fallback) == fallback

\* available[0] || fallback
FirstOr(available, fallback) ==
    IF Len(available) > 0 THEN available[1] ELSE fallback

\* resolveTheme without its line 213: the fallback is never tried
resolveTheme_SkipFallback(requested, fallback, available) ==
    IF Includes(available, requested) THEN requested
    ELSE FirstOr(available, fallback)

resolveTheme(requested, fallback, available) ==
    IF Includes(available, requested) THEN requested
    ELSE IF Includes(available, fallback) THEN fallback
    ELSE FirstOr(available, fallback)

\* the Map of resolveLanguage
aliases ==
    [a \in {"js", "ts", "py", "rb", "sh"} |->
        CASE a = "js" -> "javascript"
          [] a = "ts" -> "typescript"
          [] a = "py" -> "python"
          [] a = "rb" -> "ruby"
          [] a = "sh" -> "bash"]

\* resolveLanguage without the alias lookup
normalize_NoAliases(requested) == requested

\* aliases.get(requested) || requested
normalize(requested) ==
    IF requested \in DOMAIN aliases THEN aliases[requested] ELSE requested

\* resolveLanguage with lines 227 and 228 exchanged
resolveLanguage_FallbackFirst(requested, fallback, available) ==
    LET normalized == normalize(requested) IN
    IF Includes(available, fallback) THEN fallback
    ELSE IF Includes(available, normalized) THEN normalized
    ELSE FirstOr(available, fallback)

resolveLanguage(requested, fallback, available) ==
    LET normalized == normalize(requested) IN
    IF Includes(available, normalized) THEN normalized
    ELSE IF Includes(available, fallback) THEN fallback
    ELSE FirstOr(available, fallback)

\* lines 253-258: the warnings main writes after resolution
Warning(kind, requested, using) ==
    [kind |-> kind, requested |-> requested, using |-> using]

resolutionWarnings(requestedTheme, theme, requestedLang, lang) ==
    (IF theme # requestedTheme
        THEN <<Warning("Theme", requestedTheme, theme)>> ELSE <<>>)
    \o
    (IF lang # requestedLang
        THEN <<Warning("Language", requestedLang, lang)>> ELSE <<>>)

----------------------------------------------------------------------------
(* Bookkeeping shared by the two entry points *)

Call(op, arg, ok) == [op |-> op, arg |-> arg, ok |-> ok]

\* the ops of `calls` in order, and how often an op was called
Ops == [i \in 1..Len(calls) |-> calls[i].op]
Count(op) == Cardinality({i \in 1..Len(calls) : calls[i].op = op})
Called(op) == Count(op) > 0
Succeeded(op) == \E i \in 1..Len(calls) : calls[i].op = op /\ calls[i].ok
IndexOf(op) == CHOOSE i \in 1..Len(calls) : calls[i].op = op

\* the message of the Error a rejected collaborator call carries
Rejected(op) == [kind |-> "rejected", op |-> op]
Thrown(msg)  == [kind |-> "thrown", msg |-> msg]
None         == [kind |-> NoError]

----------------------------------------------------------------------------
(* scripts/render-snippet.js: the inputs of a run *)

InputPaths      == {Undefined, BareFlag, "in.js"}
PositionalArgs  == {<<>>, <<"pos.js">>}
RequestedThemes == {Undefined, BareFlag, "nord", "dracula", "not-a-real-theme"}
RequestedLangs  == {Undefined, "js", "python", "cobol"}
RunThemes       == {<<"nord", "dracula">>, <<"dracula", "nord">>, <<"dracula">>, <<>>}
RunLangs        == {<<"javascript", "js", "python">>, <<"python">>}
\* getBoundingClientRect of .frame, in half pixels
MeasuredRects   == { [x |-> 129, y |-> 128, width |-> 1920, height |-> 401],
                     [x |-> 128, y |-> 81, width |-> 1441, height |-> 400],
                     [x |-> -1, y |-> -3, width |-> 3, height |-> 1] }
NoClip          == [null |-> TRUE]
OutputPath      == "out/snippet.png"
OutputDir       == "out"

RS_Init ==
    /\ script = "render-snippet"
    /\ pc = "rs_start"
    /\ opts \in [help : BOOLEAN, input : InputPaths, positional : PositionalArgs,
                 theme : RequestedThemes, lang : RequestedLangs]
    /\ env \in [stdinIsTTY : BOOLEAN, themes : RunThemes, langs : RunLangs]
    /\ resolved = [theme |-> Undefined, lang |-> Undefined]
    /\ browser = "none"
    /\ closeCalls = 0
    /\ calls = <<>>
    /\ err = None
    /\ stderr = <<>>
    /\ stdout = <<>>
    /\ exitCode = Running
    /\ files = {}
    /\ clip = NoClip

\* lines 232-239: parseArgs, --help, and the call of readInput
RS_Start ==
    /\ script = "render-snippet" /\ pc = "rs_start"
    /\ IF opts.help
          THEN /\ stdout' = Append(stdout, "help")
               /\ exitCode' = 0
               /\ pc' = "exited"
          ELSE /\ pc' = "rs_readInput"
               /\ UNCHANGED <<stdout, exitCode>>
    /\ UNCHANGED <<call, ret, clip, script, opts, env, resolved, browser, closeCalls, calls, err,
                   stderr, files>>

\* readInput without the isTTY check of lines 69-71
readInputSource_NoTtyCheck ==
    IF opts.input # Undefined THEN [op |-> "readFile", arg |-> opts.input]
    ELSE IF Len(opts.positional) > 0
        THEN [op |-> "readFile", arg |-> opts.positional[1]]
    ELSE [op |-> "stdin", arg |-> "stdin"]

\* readInput with the positional argument tried before --input
readInputSource_PositionalFirst ==
    IF Len(opts.positional) > 0
        THEN [op |-> "readFile", arg |-> opts.positional[1]]
    ELSE IF opts.input # Undefined THEN [op |-> "readFile", arg |-> opts.input]
    ELSE IF env.stdinIsTTY THEN [op |-> "throw", arg |-> "tty"]
    ELSE [op |-> "stdin", arg |-> "stdin"]

\* lines 62-77: which source readInput reads
readInputSource ==
    IF opts.input # Undefined THEN [op |-> "readFile", arg |-> opts.input]
    ELSE IF Len(opts.positional) > 0
        THEN [op |-> "readFile", arg |-> opts.positional[1]]
    ELSE IF env.stdinIsTTY THEN [op |-> "throw", arg |-> "tty"]
    ELSE [op |-> "stdin", arg |-> "stdin"]

\* lines 239-260: readInput settles; on success the options are resolved, the
\* warnings written and getHighlighter called
RS_ReadInput ==
    /\ script = "render-snippet" /\ pc = "rs_readInput"
    /\ LET src == readInputSource IN
       \E ok \in BOOLEAN :
          \* fs.readFile(true) rejects; the tty case throws at line 70
          /\ (src.op = "throw" \/ src.arg = BareFlag) => ~ok
          /\ IF src.op = "throw"
                THEN calls' = calls
                ELSE calls' = Append(calls, Call(src.op, src.arg, ok))
          /\ IF ok
                THEN LET requestedLang  == OrDefault(opts.lang, DEFAULTS_lang)
                         requestedTheme == OrDefault(opts.theme, DEFAULTS_theme)
                         theme == resolveTheme(requestedTheme, DEFAULTS_theme, env.themes)
                         lang  == resolveLanguage(requestedLang, DEFAULTS_lang, env.langs)
                     IN /\ resolved' = [theme |-> theme, lang |-> lang]
                        /\ stderr' = stderr \o resolutionWarnings(
                                         requestedTheme, theme, requestedLang, lang)
                        /\ pc' = "rs_getHighlighter"
                        /\ err' = err
                ELSE /\ err' = IF src.op = "throw"
                                  THEN Thrown("No input provided. Use --input or pipe code via stdin.")
                                  ELSE Rejected(src.op)
                     /\ pc' = "rs_catch"
                     /\ UNCHANGED <<resolved, stderr>>
    /\ UNCHANGED <<call, ret, clip, script, opts, env, browser, closeCalls, stdout, exitCode, files>>

\* lines 260-276: getHighlighter settles; codeToHtml and the height estimate
\* are synchronous; then puppeteer.launch is called
RS_GetHighlighter ==
    /\ script = "render-snippet" /\ pc = "rs_getHighlighter"
    /\ \E ok \in BOOLEAN :
          /\ calls' = Append(calls, Call("getHighlighter", resolved, ok))
          /\ IF ok THEN pc' = "rs_launch" /\ err' = err
                   ELSE pc' = "rs_catch" /\ err' = Rejected("getHighlighter")
    /\ UNCHANGED <<call, ret, clip, script, opts, env, resolved, browser, closeCalls, stderr,
                   stdout, exitCode, files>>

\* lines 274-279: puppeteer.launch settles; on success the try block is entered
RS_Launch ==
    /\ script = "render-snippet" /\ pc = "rs_launch"
    /\ \E ok \in BOOLEAN :
          /\ calls' = Append(calls, Call("launch", "new", ok))
          /\ IF ok THEN pc' = "rs_newPage" /\ browser' = "open" /\ err' = err
                   ELSE pc' = "rs_catch" /\ err' = Rejected("launch")
                        /\ browser' = browser
    /\ UNCHANGED <<call, ret, clip, script, opts, env, resolved, closeCalls, stderr, stdout,
                   exitCode, files>>

\* the steps of main without try/finally: a rejection leaves main at once
RS_TryStep_NoFinally(at, op, arg, next) ==
    /\ script = "render-snippet" /\ pc = at
    /\ \E ok \in BOOLEAN :
          /\ calls' = Append(calls, Call(op, arg, ok))
          /\ IF ok THEN pc' = next /\ err' = err
                   ELSE pc' = "rs_catch" /\ err' = Rejected(op)
    /\ UNCHANGED <<call, ret, clip, script, opts, env, resolved, browser, closeCalls, stderr,
                   stdout, exitCode>>

\* a step of the try block (lines 278-316): the awaited call `op` settles and
\* control moves to `next`, or to the finally block with the rejection
RS_TryStep(at, op, arg, next) ==
    /\ script = "render-snippet" /\ pc = at
    /\ \E ok \in BOOLEAN :
          /\ calls' = Append(calls, Call(op, arg, ok))
          /\ IF ok THEN pc' = next /\ err' = err
                   ELSE pc' = "rs_finally" /\ err' = Rejected(op)
    /\ UNCHANGED <<call, ret, clip, script, opts, env, resolved, browser, closeCalls, stderr,
                   stdout, exitCode>>

RS_NewPage     == RS_TryStep("rs_newPage", "newPage", "", "rs_setViewport")
                  /\ UNCHANGED files
RS_SetViewport == RS_TryStep("rs_setViewport", "setViewport", "", "rs_setContent")
                  /\ UNCHANGED files
\* setContent whose rejection is not observed: the measurement runs anyway
RS_SetContent_NotAwaited ==
    /\ script = "render-snippet" /\ pc = "rs_setContent"
    /\ \E ok \in BOOLEAN : calls' = Append(calls, Call("setContent", "load", ok))
    /\ pc' = "rs_evaluate"
    /\ UNCHANGED <<call, ret, clip, script, opts, env, resolved, browser, closeCalls, err, stderr,
                   stdout, exitCode, files>>

RS_SetContent  == RS_TryStep("rs_setContent", "setContent", "load", "rs_evaluate")
                  /\ UNCHANGED files

\* lines 302-308 with Math.round for every field
clipOf_Rounded(rect) ==
    [x |-> Floor(2 * rect.x + 2, 4), y |-> Floor(2 * rect.y + 2, 4),
     width |-> Floor(2 * rect.width + 2, 4), height |-> Floor(2 * rect.height + 2, 4)]

\* lines 302-308: the rectangle the callback of page.evaluate returns
clipOf(rect) ==
    [x |-> Floor(rect.x, 2), y |-> Floor(rect.y, 2),
     width |-> Ceil(rect.width, 2), height |-> Ceil(rect.height, 2)]

\* the record of a completed page.evaluate: what was measured, if anything
Measured(outcome, rect) ==
    [op |-> "evaluate", arg |-> outcome, ok |-> outcome # "rejected", rect |-> rect]

\* main without the null check of lines 311-313
RS_Evaluate_NoNullCheck ==
    /\ script = "render-snippet" /\ pc = "rs_evaluate"
    /\ \/ \E rect \in MeasuredRects :
             /\ calls' = Append(calls, Measured("rect", rect))
             /\ clip' = clipOf(rect)
             /\ pc' = "rs_mkdir" /\ err' = err
       \/ /\ calls' = Append(calls, Measured("null", NoClip))
          /\ clip' = NoClip
          /\ pc' = "rs_mkdir" /\ err' = err
       \/ /\ calls' = Append(calls, Measured("rejected", NoClip))
          /\ clip' = clip
          /\ pc' = "rs_finally" /\ err' = Rejected("evaluate")
    /\ UNCHANGED <<call, ret, script, opts, env, resolved, browser, closeCalls, stderr,
                   stdout, exitCode, files>>

\* lines 299-315: page.evaluate returns the rounded rectangle, or null when no
\* element matches .frame, or rejects; null is turned into an Error
RS_Evaluate ==
    /\ script = "render-snippet" /\ pc = "rs_evaluate"
    /\ \/ \E rect \in MeasuredRects :
             /\ calls' = Append(calls, Measured("rect", rect))
             /\ clip' = clipOf(rect)
             /\ pc' = "rs_mkdir" /\ err' = err
       \/ /\ calls' = Append(calls, Measured("null", NoClip))
          /\ clip' = NoClip
          /\ pc' = "rs_finally"
          /\ err' = Thrown("Failed to locate canvas for screenshot.")
       \/ /\ calls' = Append(calls, Measured("rejected", NoClip))
          /\ clip' = clip
          /\ pc' = "rs_finally" /\ err' = Rejected("evaluate")
    /\ UNCHANGED <<call, ret, script, opts, env, resolved, browser, closeCalls, stderr,
                   stdout, exitCode, files>>

\* line 315: fs.mkdir(path.dirname(output), { recursive: true })
RS_Mkdir ==
    /\ RS_TryStep("rs_mkdir", "mkdir", OutputDir, "rs_screenshot")
    /\ files' = IF calls'[Len(calls')].ok THEN files \cup {OutputDir} ELSE files

\* line 316: page.screenshot({ path: output, clip })
RS_Screenshot ==
    /\ script = "render-snippet" /\ pc = "rs_screenshot"
    /\ \E ok \in BOOLEAN :
          /\ calls' = Append(calls, [op |-> "screenshot", arg |-> OutputPath,
                                     ok |-> ok, clip |-> clip])
          /\ err' = IF ok THEN err ELSE Rejected("screenshot")
          /\ files' = IF ok THEN files \cup {OutputPath} ELSE files
    /\ pc' = "rs_finally"
    /\ UNCHANGED <<call, ret, clip, script, opts, env, resolved, browser, closeCalls,
                   stderr, stdout, exitCode>>

\* lines 317-321: the finally block; when close resolves, the pending
\* exception is rethrown, or the success line is written and main returns
RS_Finally ==
    /\ script = "render-snippet" /\ pc = "rs_finally"
    /\ closeCalls' = closeCalls + 1
    /\ \E ok \in BOOLEAN :
          /\ calls' = Append(calls, Call("close", "", ok))
          /\ browser' = IF ok THEN "closed" ELSE browser
          /\ IF ~ok
                THEN /\ err' = Rejected("close")
                     /\ pc' = "rs_catch"
                     /\ UNCHANGED <<stdout, exitCode>>
                ELSE IF err # None
                THEN /\ pc' = "rs_catch"
                     /\ UNCHANGED <<err, stdout, exitCode>>
                ELSE /\ stdout' = Append(stdout, "Wrote")
                     /\ exitCode' = 0
                     /\ pc' = "exited"
                     /\ err' = err
    /\ UNCHANGED <<call, ret, clip, script, opts, env, resolved, stderr, files>>

\* what reaches the caller of the process for error e: every error the
\* script throws is a plain Error (lines 70, 312), and main().catch exits
\* with the same status for all of them (line 326)
errorKindOf(e) == "Error"
exitStatusOf(e) == 1

\* main().catch without process.exit(1): the process ends with status 0
RS_Catch_NoExit ==
    /\ script = "render-snippet" /\ pc = "rs_catch"
    /\ stderr' = Append(stderr, err)
    /\ exitCode' = 0
    /\ pc' = "exited"
    /\ UNCHANGED <<call, ret, clip, script, opts, env, resolved, browser, closeCalls, calls,
                   err, stdout, files>>

\* main().catch with an exit status of its own for the errors main throws
RS_Catch_StatusByError ==
    /\ script = "render-snippet" /\ pc = "rs_catch"
    /\ stderr' = Append(stderr, err)
    /\ exitCode' = IF err.kind = "thrown" THEN 2 ELSE 1
    /\ pc' = "exited"
    /\ UNCHANGED <<call, ret, clip, script, opts, env, resolved, browser, closeCalls, calls,
                   err, stdout, files>>

\* lines 324-327: main().catch
RS_Catch ==
    /\ script = "render-snippet" /\ pc = "rs_catch"
    /\ stderr' = Append(stderr, err)
    /\ exitCode' = 1
    /\ pc' = "exited"
    /\ UNCHANGED <<call, ret, clip, script, opts, env, resolved, browser, closeCalls, calls, err,
                   stdout, files>>

RS_Next ==
    \/ RS_Start \/ RS_ReadInput \/ RS_GetHighlighter \/ RS_Launch
    \/ RS_NewPage \/ RS_SetViewport \/ RS_SetContent \/ RS_Evaluate
    \/ RS_Mkdir \/ RS_Screenshot \/ RS_Finally \/ RS_Catch

----------------------------------------------------------------------------
(* main.js: the reel pipeline, lines 360-423 *)

M_OutputDir   == "output_dir"
M_ImagePath   == "output_dir/snippet.png"
M_SegmentPath == "output_dir/broll_segment.mp4"
M_VideoPath   == "output_dir/reel.mp4"
M_CaptionPath == "output_dir/caption.txt"
M_BRollPath   == "./bRoll.mov"

M_Init ==
    /\ script = "main"
    /\ pc = "m_mkdir"
    /\ opts = [help |-> FALSE]
    /\ env \in [hasApiKey : BOOLEAN]
    /\ resolved = [theme |-> "nord", lang |-> "javascript"]
    /\ browser = "none"
    /\ closeCalls = 0
    /\ calls = <<>>
    /\ err = None
    /\ stderr = <<>>
    /\ stdout = <<>>
    /\ exitCode = Running
    /\ files = {}
    /\ clip = NoClip

\* a step before the try block: a rejection leaves main at once
M_PreStep(at, op, arg, next, error) ==
    /\ script = "main" /\ pc = at
    /\ \E ok \in BOOLEAN :
          /\ calls' = Append(calls, Call(op, arg, ok))
          /\ IF ok THEN pc' = next /\ err' = err
                   ELSE pc' = "m_catch" /\ err' = error
    /\ UNCHANGED <<call, ret, clip, script, opts, env, resolved, closeCalls, exitCode>>

\* lines 367-369
M_Mkdir ==
    /\ M_PreStep("m_mkdir", "mkdir", M_OutputDir, "m_access", Rejected("mkdir"))
    /\ files' = IF calls'[Len(calls')].ok THEN files \cup {M_OutputDir} ELSE files
    /\ stdout' = IF calls'[Len(calls')].ok
                    THEN Append(stdout, "Output directory") ELSE stdout
    /\ UNCHANGED <<browser, stderr>>

\* lines 373-382: the b-roll check, then puppeteer.launch is called
M_Access ==
    /\ M_PreStep("m_access", "access", M_BRollPath, "m_launch",
                 Thrown("B-roll video not found"))
    /\ stdout' = IF calls'[Len(calls')].ok
                    THEN Append(stdout, "Generating 1 code snippet") ELSE stdout
    /\ UNCHANGED <<browser, stderr, files>>

\* generateSnippetWithAI without the API key check of lines 75-77
M_Launch_NoKeyCheck ==
    /\ script = "main" /\ pc = "m_launch"
    /\ \E ok \in BOOLEAN :
          /\ calls' = Append(calls, Call("launch", "new", ok))
          /\ IF ~ok
                THEN /\ pc' = "m_catch" /\ err' = Rejected("launch")
                     /\ UNCHANGED <<browser, stdout>>
                ELSE /\ browser' = "open"
                     /\ stdout' = Append(stdout, "Generating snippet")
                     /\ pc' = "m_generateText"
                     /\ err' = err
    /\ UNCHANGED <<call, ret, clip, script, opts, env, resolved, closeCalls, stderr,
                   exitCode, files>>

\* lines 382-386 and 74-86: launch settles; the try block is entered and
\* generateSnippetWithAI checks the API key before it calls generateText
M_Launch ==
    /\ script = "main" /\ pc = "m_launch"
    /\ \E ok \in BOOLEAN :
          /\ calls' = Append(calls, Call("launch", "new", ok))
          /\ IF ~ok
                THEN /\ pc' = "m_catch" /\ err' = Rejected("launch")
                     /\ UNCHANGED <<browser, stdout>>
                ELSE /\ browser' = "open"
                     /\ IF env.hasApiKey
                           THEN /\ stdout' = Append(stdout, "Generating snippet")
                                /\ pc' = "m_generateText"
                                /\ err' = err
                           ELSE /\ err' = Thrown("Missing OPENAI_API_KEY")
                                /\ pc' = "m_finally"
                                /\ stdout' = stdout
    /\ UNCHANGED <<call, ret, clip, script, opts, env, resolved, closeCalls, stderr, exitCode, files>>

\* a step of the try block (lines 384-414)
M_TryStep(at, op, arg, next, error) ==
    /\ script = "main" /\ pc = at
    /\ \E ok \in BOOLEAN :
          /\ calls' = Append(calls, Call(op, arg, ok))
          /\ IF ok THEN pc' = next /\ err' = err
                   ELSE pc' = "m_finally" /\ err' = error
    /\ UNCHANGED <<call, ret, clip, script, opts, env, resolved, browser, closeCalls, exitCode>>

\* lines 81-93 and 153-157: generateText settles; the text is cleaned and
\* parsed (JSON.parse may throw); renderSnippet calls getHighlighter
M_GenerateText ==
    /\ script = "main" /\ pc = "m_generateText"
    /\ \E outcome \in {"json", "not json", "rejected"} :
          /\ calls' = Append(calls, Call("generateText", outcome, outcome # "rejected"))
          /\ CASE outcome = "json" -> pc' = "m_getHighlighter" /\ err' = err
               [] outcome = "not json" ->
                      pc' = "m_finally" /\ err' = Thrown("JSON.parse")
               [] outcome = "rejected" ->
                      pc' = "m_finally" /\ err' = Rejected("generateText")
    /\ UNCHANGED <<call, ret, clip, script, opts, env, resolved, browser, closeCalls, stderr,
                   stdout, exitCode, files>>

\* lines 154-190: renderSnippet
M_GetHighlighter ==
    /\ M_TryStep("m_getHighlighter", "getHighlighter", resolved, "m_newPage",
                 Rejected("getHighlighter"))
    /\ UNCHANGED <<stderr, stdout, files>>
M_NewPage ==
    /\ M_TryStep("m_newPage", "newPage", "", "m_setViewport", Rejected("newPage"))
    /\ UNCHANGED <<stderr, stdout, files>>
M_SetViewport ==
    /\ M_TryStep("m_setViewport", "setViewport", "", "m_setContent",
                 Rejected("setViewport"))
    /\ UNCHANGED <<stderr, stdout, files>>
M_SetContent ==
    /\ M_TryStep("m_setContent", "setContent", "load", "m_screenshot",
                 Rejected("setContent"))
    /\ UNCHANGED <<stderr, stdout, files>>
M_Screenshot ==
    /\ M_TryStep("m_screenshot", "screenshot", M_ImagePath, "m_pageClose",
                 Rejected("screenshot"))
    /\ files' = IF calls'[Len(calls')].ok THEN files \cup {M_ImagePath} ELSE files
    /\ UNCHANGED <<stderr, stdout>>
\* lines 190-192 and 108-112: page.close, the log line, then ffprobe is called
M_PageClose ==
    /\ M_TryStep("m_pageClose", "pageClose", "", "m_ffprobe", Rejected("pageClose"))
    /\ stdout' = IF calls'[Len(calls')].ok
                    THEN stdout \o <<"Rendered", "Extracting random segment">>
                    ELSE stdout
    /\ UNCHANGED <<stderr, files>>

\* lines 96-119: getVideoDuration
M_Ffprobe ==
    /\ M_TryStep("m_ffprobe", "ffprobe", M_BRollPath, "m_extract", Rejected("ffprobe"))
    /\ stdout' = IF calls'[Len(calls')].ok
                    THEN stdout \o <<"B-roll duration", "Extracting">>
                    ELSE stdout
    /\ UNCHANGED <<stderr, files>>

\* lines 121-150 and 320-322: the ffmpeg run of extractRandomVideoSegment
M_Extract ==
    /\ M_TryStep("m_extract", "extract", M_SegmentPath, "m_overlay",
                 Thrown("Failed to extract video segment."))
    /\ LET ok == calls'[Len(calls')].ok IN
       /\ files' = IF ok THEN files \cup {M_SegmentPath} ELSE files
       /\ stdout' = IF ok THEN stdout \o <<"Video segment extracted",
                                           "Overlaying code snippet">>
                          ELSE stdout
       /\ stderr' = IF ok THEN stderr ELSE Append(stderr, "FFmpeg error")

\* lines 323-358 and 397-404: the ffmpeg run of overlayCodeOnVideo, then
\* fs.writeFile of the caption is called
M_Overlay ==
    /\ M_TryStep("m_overlay", "overlay", M_VideoPath, "m_writeCaption",
                 Thrown("Failed to overlay code on video."))
    /\ LET ok == calls'[Len(calls')].ok IN
       /\ files' = IF ok THEN files \cup {M_VideoPath} ELSE files
       /\ stdout' = IF ok THEN Append(stdout, "Final video created") ELSE stdout
       /\ stderr' = IF ok THEN stderr ELSE Append(stderr, "FFmpeg error")

\* lines 404-416: writeFile settles; the closing banner is logged inside the
\* try block; then the finally block calls browser.close
M_WriteCaption ==
    /\ M_TryStep("m_writeCaption", "writeFile", M_CaptionPath, "m_finally",
                 Rejected("writeFile"))
    /\ LET ok == calls'[Len(calls')].ok IN
       /\ files' = IF ok THEN files \cup {M_CaptionPath} ELSE files
       /\ stdout' = IF ok THEN stdout \o <<"Caption saved", "ALL DONE!">>
                          ELSE stdout
    /\ UNCHANGED stderr

\* lines 415-418: the finally block
M_Finally ==
    /\ script = "main" /\ pc = "m_finally"
    /\ closeCalls' = closeCalls + 1
    /\ \E ok \in BOOLEAN :
          /\ calls' = Append(calls, Call("close", "", ok))
          /\ browser' = IF ok THEN "closed" ELSE browser
          /\ IF ~ok
                THEN /\ err' = Rejected("close")
                     /\ pc' = "m_catch"
                     /\ exitCode' = exitCode
                ELSE IF err # None
                THEN /\ pc' = "m_catch"
                     /\ UNCHANGED <<err, exitCode>>
                ELSE /\ exitCode' = 0
                     /\ pc' = "exited"
                     /\ err' = err
    /\ UNCHANGED <<call, ret, clip, script, opts, env, resolved, stderr, stdout, files>>

\* lines 420-423: main().catch
M_Catch ==
    /\ script = "main" /\ pc = "m_catch"
    /\ stderr' = Append(stderr, err)
    /\ exitCode' = 1
    /\ pc' = "exited"
    /\ UNCHANGED <<call, ret, clip, script, opts, env, resolved, browser, closeCalls, calls, err,
                   stdout, files>>

M_Next ==
    \/ M_Mkdir \/ M_Access \/ M_Launch \/ M_GenerateText \/ M_GetHighlighter
    \/ M_NewPage \/ M_SetViewport \/ M_SetContent \/ M_Screenshot
    \/ M_PageClose \/ M_Ffprobe \/ M_Extract \/ M_Overlay \/ M_WriteCaption
    \/ M_Finally \/ M_Catch

----------------------------------------------------------------------------
(* The two entry points: one run of either script *)

NoCall == [fn |-> "none"]

Init ==
    /\ RS_Init \/ M_Init
    /\ call = NoCall
    /\ ret = NoCall

Next == RS_Next \/ M_Next

Spec == Init /\ [][Next]_vars

----------------------------------------------------------------------------
(* Properties of the two entry points (specification Spec) *)

Standalone == script = "render-snippet"
Reel       == script = "main"

InStdout(line) == \E i \in 1..Len(stdout) : stdout[i] = line
SuccessReported == InStdout("Wrote") \/ InStdout("ALL DONE!")
\* the catch handler has written the error and called process.exit(1)
FailureReported == exitCode = 1
CatchPending    == pc \in {"rs_catch", "m_catch"}

\* C1 as stated: in both scripts, once the browser was launched, the session
\* has been closed exactly once whenever the process has reported success
\* or failure.
C1_ClosedBeforeAnyReport ==
    (Succeeded("launch") /\ (SuccessReported \/ FailureReported))
        => closeCalls = 1

\* C1 (amended): in both scripts, once the browser was launched, browser.close
\* is invoked at most once, and exactly once before main returns or its error
\* reaches the catch handler, so before the failure is reported and before
\* the process ends; render-snippet.js also prints its success line only
\* after the close.
C1_ClosedBeforeReturn ==
    /\ closeCalls = Count("close")
    /\ closeCalls <= 1
    /\ closeCalls = 1 => Succeeded("launch")
    /\ Succeeded("launch") =>
          /\ (CatchPending \/ FailureReported \/ pc = "exited" \/ exitCode # Running)
                => closeCalls = 1
          /\ (Standalone /\ SuccessReported) => closeCalls = 1

\* the session was opened, a later step failed, and the run ended closed
C1_Witness ==
    /\ Reel /\ pc = "exited" /\ exitCode = 1 /\ closeCalls = 1 /\ browser = "closed"
    /\ \E i \in 1..Len(calls) : calls[i].op = "overlay" /\ ~calls[i].ok

MeasuredAbsent ==
    Standalone /\ \E i \in 1..Len(calls) : calls[i].op = "evaluate" /\ calls[i].arg = "null"

RenderFailure == Thrown("Failed to locate canvas for screenshot.")

\* C2: when the frame measurement returns null, the standalone run throws the
\* render failure, performs no capture and creates no output, measures only
\* once, closes the session, and ends with exit status 1 having written the
\* error (the render failure, unless browser.close itself rejected).
C2_AbsentFrameFails ==
    MeasuredAbsent =>
        /\ ~Called("screenshot") /\ ~Called("mkdir") /\ files = {}
        /\ Count("evaluate") = 1 /\ Count("setContent") = 1 /\ Count("launch") = 1
        /\ ~InStdout("Wrote") /\ exitCode # 0
        /\ pc \in {"rs_finally", "rs_catch", "exited"}
        /\ pc = "rs_finally" => err = RenderFailure
        /\ pc # "rs_finally" => closeCalls = 1
        /\ pc = "rs_catch" => err \in {RenderFailure, Rejected("close")}
        /\ pc = "exited" =>
              /\ exitCode = 1
              /\ stderr[Len(stderr)] = err
              /\ (browser = "closed" <=> err = RenderFailure)

C2_Witness ==
    MeasuredAbsent /\ pc = "exited" /\ browser = "closed" /\ exitCode = 1
    /\ stderr[Len(stderr)] = RenderFailure

requestedThemeOf(o) == OrDefault(o.theme, DEFAULTS_theme)
requestedLangOf(o)  == OrDefault(o.lang, DEFAULTS_lang)

\* the setting of C6: an unsupported theme, a supported canonical language,
\* and the configured default theme among the bundled ones
UnknownThemeRun ==
    /\ Standalone /\ ~opts.help
    /\ ~Includes(env.themes, requestedThemeOf(opts))
    /\ Includes(env.themes, DEFAULTS_theme)
    /\ Includes(env.langs, requestedLangOf(opts))
    /\ requestedLangOf(opts) \notin DOMAIN aliases

\* C6: a standalone run with an unsupported theme and a supported canonical
\* language highlights with the default theme nord, writes exactly one
\* warning, naming the requested and the resolved theme, and when it ends
\* successfully the image was written and that warning is all of stderr.
C6_UnknownThemeFallsBack ==
    (UnknownThemeRun /\ Called("getHighlighter")) =>
        /\ resolved.theme = DEFAULTS_theme
        /\ resolved.lang = requestedLangOf(opts)
        /\ Len(stderr) >= 1
        /\ stderr[1] = Warning("Theme", requestedThemeOf(opts), DEFAULTS_theme)
        /\ \A i \in 2..Len(stderr) : i = Len(stderr) /\ pc = "exited" /\ stderr[i] = err
        /\ calls[IndexOf("getHighlighter")].arg.theme = DEFAULTS_theme
        /\ exitCode = 0 =>
              /\ OutputPath \in files
              /\ stderr = <<Warning("Theme", requestedThemeOf(opts), DEFAULTS_theme)>>

C6_Witness ==
    /\ UnknownThemeRun /\ opts.theme = "not-a-real-theme"
    /\ exitCode = 0 /\ OutputPath \in files /\ Len(stderr) = 1

NoInputProvided == Thrown("No input provided. Use --input or pipe code via stdin.")

\* no --input, no positional path, stdin is a terminal
NoSource ==
    opts.input = Undefined /\ opts.positional = <<>> /\ env.stdinIsTTY

InputFailed ==
    /\ Standalone /\ pc \in {"rs_catch", "exited"}
    /\ err \in {NoInputProvided, Rejected("readFile")}

\* C9: a standalone run without any code source, or whose input file cannot
\* be read, fails with the input error before anything else happens: no
\* highlighter, no browser session, no output directory, no image; it ends
\* with exit status 1 and the error on stderr.
C9_InputFailureFirst ==
    /\ (Standalone /\ ~opts.help /\ NoSource /\ pc \notin {"rs_start", "rs_readInput"})
          => (InputFailed /\ err = NoInputProvided)
    /\ (Standalone /\ \E i \in 1..Len(calls) : calls[i].op = "readFile" /\ ~calls[i].ok)
          => (InputFailed /\ err = Rejected("readFile"))
    /\ InputFailed =>
          /\ files = {} /\ browser = "none" /\ closeCalls = 0
          /\ \A i \in 1..Len(calls) : calls[i].op = "readFile"
          /\ ~InStdout("Wrote") /\ exitCode # 0
          /\ pc = "exited" => (exitCode = 1 /\ stderr = <<err>>)

C9_Witness ==
    InputFailed /\ NoSource /\ pc = "exited" /\ exitCode = 1
    /\ stderr = <<NoInputProvided>>

SessionOps == {"launch", "newPage", "setViewport", "setContent", "evaluate",
               "mkdir", "screenshot", "close"}
IsSessionCall(c) == c.op \in SessionOps
SessionCalls == SelectSeq(calls, IsSessionCall)

\* C10: in the standalone script launch, load, measurement, capture and close
\* each happen at most once; the measurement follows the completed load, the
\* capture follows a measurement that returned a rectangle, and once "Wrote"
\* is printed the session is closed and the calls were, in this order and
\* all successful: launch, newPage, setViewport, setContent, evaluate, mkdir,
\* screenshot, close.
C10_SequentialRender ==
    Standalone =>
        /\ \A op \in SessionOps : Count(op) <= 1
        /\ Called("evaluate") =>
              /\ Succeeded("setContent")
              /\ IndexOf("setContent") < IndexOf("evaluate")
        /\ Called("screenshot") =>
              /\ Called("evaluate")
              /\ calls[IndexOf("evaluate")].arg = "rect"
              /\ IndexOf("evaluate") < IndexOf("screenshot")
        /\ Called("setContent") =>
              (Succeeded("launch") /\ IndexOf("launch") < IndexOf("setContent"))
        /\ InStdout("Wrote") =>
              /\ browser = "closed" /\ closeCalls = 1 /\ pc = "exited"
              /\ [i \in 1..Len(SessionCalls) |-> SessionCalls[i].op] =
                    <<"launch", "newPage", "setViewport", "setContent",
                      "evaluate", "mkdir", "screenshot", "close">>
              /\ \A i \in 1..Len(calls) : calls[i].ok
              /\ stdout = <<"Wrote">>

C10_Witness ==
    Standalone /\ InStdout("Wrote") /\ exitCode = 0 /\ Len(SessionCalls) = 8

\* C11: in the standalone script the rectangle passed to page.screenshot is
\* the rectangle measured for .frame with x and y rounded down and width and
\* height rounded up to whole pixels, whatever the padding and the estimated
\* height; a capture without such a rectangle never happens.
C11_CaptureIsRoundedFrame ==
    Standalone =>
        \A i \in 1..Len(calls) : calls[i].op = "screenshot" =>
            /\ Called("evaluate") /\ IndexOf("evaluate") < i
            /\ calls[IndexOf("evaluate")].arg = "rect"
            /\ calls[i].clip # NoClip
            /\ LET rect == calls[IndexOf("evaluate")].rect
                   c == calls[i].clip
               IN  \* rect is in half pixels, c in pixels
                   /\ 2 * c.x <= rect.x /\ rect.x < 2 * c.x + 2
                   /\ 2 * c.y <= rect.y /\ rect.y < 2 * c.y + 2
                   /\ 2 * c.width >= rect.width /\ rect.width > 2 * c.width - 2
                   /\ 2 * c.height >= rect.height /\ rect.height > 2 * c.height - 2

C11_Witness ==
    /\ Standalone /\ Succeeded("screenshot")
    /\ calls[IndexOf("evaluate")].rect = [x |-> 129, y |-> 128, width |-> 1920, height |-> 401]
    /\ calls[IndexOf("screenshot")].clip = [x |-> 64, y |-> 64, width |-> 960, height |-> 201]

\* the step that failed: a rejected call, or the measurement that returned null
FailedAt(i) == ~calls[i].ok \/ (calls[i].op = "evaluate" /\ calls[i].arg = "null")

\* C12: every failure of a standalone run is terminal: no call is made twice,
\* nothing but browser.close follows the failed step, the success line is
\* never printed, and the run ends with the error on stderr and status 1.
C12_FailuresAreTerminal ==
    Standalone =>
        /\ \A i \in 1..Len(calls) : FailedAt(i) => err # None
        /\ (pc = "exited" /\ exitCode = 1) => err # None
        /\ err # None =>
              /\ pc \in {"rs_finally", "rs_catch", "exited"}
              /\ ~InStdout("Wrote") /\ exitCode # 0
              /\ \A i, j \in 1..Len(calls) : (i # j) => calls[i].op # calls[j].op
              /\ \A i, j \in 1..Len(calls) :
                    (FailedAt(i) /\ i < j) => (calls[j].op = "close" /\ j = Len(calls))
              /\ pc = "exited" =>
                    /\ exitCode = 1
                    /\ Len(stderr) >= 1 /\ stderr[Len(stderr)] = err

C12_Witness ==
    /\ Standalone /\ pc = "exited" /\ exitCode = 1
    /\ err = Rejected("mkdir") /\ stderr[Len(stderr)] = err
    /\ calls[Len(calls)].op = "close" /\ calls[Len(calls)].ok

\* C13 as stated: a standalone run that fails has created neither the output
\* directory nor the image, also when it is the capture that fails.
C13_NothingCreatedOnFailure ==
    (Standalone /\ err # None) => files = {}

\* C13 (amended): the output directory exists exactly when mkdir succeeded,
\* which is attempted only after the frame was measured; the image exists
\* exactly when the capture succeeded; a run that fails before or at mkdir
\* leaves nothing, a run whose capture fails leaves the output directory
\* without the image, and a failing run leaves the image only when the
\* capture succeeded and browser.close rejected.
C13_FilesFollowTheirStep ==
    Standalone =>
        /\ OutputDir \in files <=> Succeeded("mkdir")
        /\ OutputPath \in files <=> Succeeded("screenshot")
        /\ Called("mkdir") =>
              (Called("evaluate") /\ calls[IndexOf("evaluate")].arg = "rect")
        /\ Called("screenshot") => Succeeded("mkdir")
        /\ (err # None /\ ~Succeeded("mkdir")) => files = {}
        /\ (Called("screenshot") /\ ~Succeeded("screenshot")) => files = {OutputDir}
        /\ (err # None /\ OutputPath \in files) => err = Rejected("close")

C13_Witness ==
    /\ Standalone /\ pc = "exited" /\ exitCode = 1
    /\ Called("screenshot") /\ ~Succeeded("screenshot")
    /\ files = {OutputDir}

InputErrors  == {NoInputProvided, Rejected("readFile")}
IOErrors     == {Rejected("mkdir")}
RenderErrors == {RenderFailure}
FailureModeOf(e) ==
    CASE e \in InputErrors -> "InputFailure"
      [] e \in IOErrors -> "IOFailure"
      [] e \in RenderErrors -> "RenderFailure"
      [] OTHER -> "other"
ThreeModes == InputErrors \cup IOErrors \cup RenderErrors

EndedWithOneOfThree ==
    Standalone /\ pc = "exited" /\ exitCode # 0 /\ err \in ThreeModes

C19_InputPrecedence ==
    (Standalone /\ ~opts.help /\ pc \notin {"rs_start", "rs_readInput"}) =>
        /\ Count("readFile") + Count("stdin") <= 1
        /\ IF opts.input # Undefined
              THEN calls[1].op = "readFile" /\ calls[1].arg = opts.input
           ELSE IF opts.positional # <<>>
              THEN calls[1].op = "readFile" /\ calls[1].arg = opts.positional[1]
           ELSE IF ~env.stdinIsTTY
              THEN calls[1].op = "stdin"
           ELSE calls = <<>>
        /\ Called("stdin") => (opts.input = Undefined /\ opts.positional = <<>>)
        /\ Called("getHighlighter") =>
              /\ calls[1].op \in {"readFile", "stdin"} /\ calls[1].ok
              /\ IndexOf("getHighlighter") = 2

C19_Witness ==
    /\ Standalone /\ opts.input = "in.js" /\ opts.positional = <<"pos.js">>
    /\ ~env.stdinIsTTY
    /\ Called("getHighlighter")
    /\ calls[1] = Call("readFile", "in.js", TRUE)

ReelOrder == <<"mkdir", "access", "launch", "generateText", "getHighlighter",
               "newPage", "setViewport", "setContent", "screenshot", "pageClose",
               "ffprobe", "extract", "overlay", "writeFile">>
IsReelStep(c) == c.op # "close"
ReelSteps == SelectSeq(calls, IsReelStep)
ReelStepDone(c) == c.ok /\ (c.op = "generateText" => c.arg = "json")

\* C20: the calls of the reel pipeline are a prefix of mkdir, access, launch,
\* generateText, the rendering of the image, ffprobe, extract, overlay,
\* writeFile; a step is made only when every earlier one succeeded; the
\* caption exists only together with the final video; a missing b-roll or
\* API key ends the run with status 1 and without an image.
C20_ReelFailStop ==
    Reel =>
        /\ Len(ReelSteps) <= Len(ReelOrder)
        /\ \A i \in 1..Len(ReelSteps) :
              /\ ReelSteps[i].op = ReelOrder[i]
              /\ i < Len(ReelSteps) => ReelStepDone(ReelSteps[i])
        /\ \A i \in 1..Len(calls) : calls[i].op = "close" => i = Len(calls)
        /\ M_CaptionPath \in files =>
              (M_VideoPath \in files /\ Succeeded("overlay") /\ Succeeded("writeFile"))
        /\ M_VideoPath \in files => (M_SegmentPath \in files /\ M_ImagePath \in files)
        /\ (Called("access") /\ ~Succeeded("access")) =>
              (Len(calls) = 2 /\ files = {M_OutputDir} /\ browser = "none" /\ exitCode # 0)
        /\ ~env.hasApiKey =>
              /\ ~Called("generateText") /\ ~Called("screenshot")
              /\ M_ImagePath \notin files /\ exitCode # 0
        /\ (pc = "exited" /\ M_CaptionPath \notin files) => exitCode = 1

C20_Witness ==
    /\ Reel /\ pc = "exited" /\ exitCode = 1 /\ ~env.hasApiKey
    /\ Succeeded("launch") /\ closeCalls = 1
    /\ files = {M_OutputDir}

\* a warning of the given kind is on stderr
Warned(kind) == \E i \in 1..Len(stderr) : stderr[i].kind = kind
\* the requested identifier, after alias expansion for languages, is not in
\* the supported set
ThemeFellBack == ~Includes(env.themes, requestedThemeOf(opts))
LanguageFellBack == ~Includes(env.langs, normalize(requestedLangOf(opts)))

\* C21: once the identifiers of a standalone run are resolved, a theme
\* warning is on stderr exactly when the requested theme is not supported and
\* a language warning exactly when the requested language, after alias
\* expansion, is not supported; so --lang js with javascript supported
\* writes no warning.
C21_WarningIffFellBack ==
    (Standalone /\ Called("getHighlighter") /\ env.themes # <<>>) =>
        /\ Warned("Theme") <=> ThemeFellBack
        /\ Warned("Language") <=> LanguageFellBack

\* C22: the crop rectangle covers the rectangle measured for .frame whenever
\* the measured coordinates are not negative: its left and top edges are not
\* beyond those of the frame, and its right and bottom edges are not before
\* those of the frame (the rectangle is in half pixels, the crop in pixels).
C22_CropCoversFrame ==
    Standalone =>
        \A i \in 1..Len(calls) :
            (calls[i].op = "evaluate" /\ calls[i].arg = "rect"
                /\ calls[i].rect.x >= 0 /\ calls[i].rect.y >= 0) =>
            LET rect == calls[i].rect IN
            /\ clip # NoClip
            /\ 2 * clip.x <= rect.x
            /\ 2 * clip.y <= rect.y
            /\ 2 * (clip.x + clip.width) >= rect.x + rect.width
            /\ 2 * (clip.y + clip.height) >= rect.y + rect.height

----------------------------------------------------------------------------
(* Identifier resolution on its own (specification SpecResolve):           *)
(* the request and the bundled identifiers are drawn, then resolveTheme or *)
(* resolveLanguage is applied with the fallback main passes.               *)

MaxBundle == 3

\* no script runs in the specifications of the pure functions
Idle ==
    /\ script = "none"
    /\ pc = "idle"
    /\ opts = [help |-> FALSE]
    /\ env = [stdinIsTTY |-> TRUE]
    /\ resolved = [theme |-> Undefined, lang |-> Undefined]
    /\ browser = "none"
    /\ closeCalls = 0
    /\ calls = <<>>
    /\ err = None
    /\ stderr = <<>>
    /\ stdout = <<>>
    /\ exitCode = Running
    /\ files = {}
    /\ clip = NoClip

BundledIds == {"nord", "javascript", "js", "python", "py", "typescript"}
\* what main can pass as `requested`: an identifier of any spelling, or true
RequestedIds == BundledIds \cup {"ts", "rb", "sh", "Nord", "cobol", BareFlag}

\* Object.keys of a bundle: distinct identifiers in insertion order
Bundles ==
    UNION {{b \in [1..n -> BundledIds] :
               \A i, j \in 1..n : i # j => b[i] # b[j]} : n \in 0..MaxBundle}

ResolveInit ==
    /\ Idle
    /\ call \in [fn : {"resolve"}, requested : RequestedIds, available : Bundles]
    /\ ret = NoCall

\* line 251
CallResolveTheme ==
    /\ call.fn = "resolve" /\ ret = NoCall
    /\ ret' = [fn |-> "resolveTheme",
               value |-> resolveTheme(call.requested, DEFAULTS_theme, call.available)]
    /\ UNCHANGED <<call, pipelineVars>>

\* line 252
CallResolveLanguage ==
    /\ call.fn = "resolve" /\ ret = NoCall
    /\ ret' = [fn |-> "resolveLanguage",
               value |-> resolveLanguage(call.requested, DEFAULTS_lang, call.available)]
    /\ UNCHANGED <<call, pipelineVars>>

ResolveNext == CallResolveTheme \/ CallResolveLanguage

SpecResolve == ResolveInit /\ [][ResolveNext]_vars

Resolved == ret.fn \in {"resolveTheme", "resolveLanguage"}
Supported == {call.available[i] : i \in 1..Len(call.available)}

\* C3: whatever is requested (a supported or unsupported identifier, or the
\* value true of a bare flag), resolveTheme and resolveLanguage return, and
\* when the supported set is not empty the identifier returned is a member
\* of it.
C3_ResolvesToSupported ==
    Resolved =>
        /\ ret.value \in Supported \cup {DEFAULTS_theme, DEFAULTS_lang}
        /\ Supported # {} => ret.value \in Supported

C3_Witness ==
    /\ Resolved /\ call.requested \in {"cobol", BareFlag}
    /\ Supported # {} /\ DEFAULTS_theme \notin Supported /\ DEFAULTS_lang \notin Supported
    /\ ret.value = call.available[1]

\* the three steps of C4 applied to identifier `id`
ThreeSteps(id, fallback) ==
    IF id \in Supported THEN id
    ELSE IF fallback \in Supported THEN fallback
    ELSE call.available[1]

\* C4 as stated: for themes and for languages alike, the result is the
\* requested identifier if supported, else the fallback if supported, else
\* the first supported identifier.
C4_ThreeStepsOnRequested ==
    (Resolved /\ Supported # {}) =>
        ret.value = ThreeSteps(call.requested,
                               IF ret.fn = "resolveTheme" THEN DEFAULTS_theme
                                                          ELSE DEFAULTS_lang)

\* the alias table as C5 states it
Canonical(id) ==
    CASE id = "js" -> "javascript"
      [] id = "ts" -> "typescript"
      [] id = "py" -> "python"
      [] id = "rb" -> "ruby"
      [] id = "sh" -> "bash"
      [] OTHER -> id

\* C4 (amended): the three steps are applied to the requested identifier for
\* themes and to the alias-expanded identifier for languages; with an empty
\* supported set the result is the fallback.
C4_ThreeStepsAfterAliases ==
    /\ (Resolved /\ Supported # {}) =>
          ret.value = IF ret.fn = "resolveTheme"
                         THEN ThreeSteps(call.requested, DEFAULTS_theme)
                         ELSE ThreeSteps(Canonical(call.requested), DEFAULTS_lang)
    /\ (Resolved /\ Supported = {}) =>
          ret.value = IF ret.fn = "resolveTheme" THEN DEFAULTS_theme ELSE DEFAULTS_lang

\* the third step decides: neither the request nor the fallback is supported
C4_Witness ==
    /\ ret.fn = "resolveLanguage" /\ call.requested = "py"
    /\ call.available = <<"py", "js", "nord">>
    /\ ret.value = "py"

Aliases == {"js", "ts", "py", "rb", "sh"}

\* C5: resolveLanguage expands js, ts, py, rb, sh before matching, so a
\* supported canonical identifier is the result even when the alias is itself
\* supported; resolveTheme never expands: a supported alias is returned as it
\* is, and an unsupported one resolves like any other unsupported request.
C5_AliasesExpandedForLanguages ==
    /\ (ret.fn = "resolveLanguage" /\ call.requested \in Aliases
          /\ Canonical(call.requested) \in Supported)
          => ret.value = Canonical(call.requested)
    /\ (ret.fn = "resolveTheme" /\ call.requested \in Aliases) =>
          IF call.requested \in Supported THEN ret.value = call.requested
          ELSE IF DEFAULTS_theme \in Supported THEN ret.value = DEFAULTS_theme
          ELSE IF Supported # {} THEN ret.value = call.available[1]
          ELSE ret.value = DEFAULTS_theme

C5_Witness ==
    /\ ret.fn = "resolveLanguage" /\ call.requested = "py"
    /\ "py" \in Supported /\ "python" \in Supported
    /\ call.available[1] = "py"
    /\ ret.value = "python"

----------------------------------------------------------------------------
(* Composition of the document (specification SpecHtml).                   *)
(* A string is a sequence of characters. The document is the sequence of   *)
(* the parts the template literal concatenates, each tagged with what it   *)
(* comes from; the markup of the template itself is abbreviated.           *)

MaxLen == 2

RECURSIVE replaceAll(_, _, _)
\* String.prototype.replaceAll for a one-character pattern
replaceAll(str, pattern, replacement) ==
    IF str = <<>> THEN <<>>
    ELSE (IF Head(str) = pattern THEN replacement ELSE <<Head(str)>>)
         \o replaceAll(Tail(str), pattern, replacement)

\* scripts/render-snippet.js:90-97
escapeHtml(value) ==
    LET s1 == replaceAll(value, "&", <<"&", "a", "m", "p", ";">>)
        s2 == replaceAll(s1, "<", <<"&", "l", "t", ";">>)
        s3 == replaceAll(s2, ">", <<"&", "g", "t", ";">>)
        s4 == replaceAll(s3, "\"", <<"&", "q", "u", "o", "t", ";">>)
    IN  replaceAll(s4, "'", <<"&", "#", "3", "9", ";">>)

Part(src, text) == [src |-> src, text |-> text]
Template(markup) == Part("template", <<markup>>)

\* scripts/render-snippet.js:99-208 (the interpolations, in order)
buildHtml(args) ==
    << Template("<!doctype html>...<style>...font-family: "),
       Part("font", args.font),
       Template(";} .canvas { padding: "),
       Part("padding", args.padding),
       Template("px; background: "),
       Part("background", args.background),
       Template(";} .frame { width: "),
       Part("width", args.width),
       Template("px;} .code { font-size: "),
       Part("fontSize", args.fontSize),
       Template("px;}</style>...<div class=\"title\">"),
       Part("title", escapeHtml(args.title)),
       Template("</div><div class=\"theme-label\">"),
       Part("themeName", escapeHtml(args.themeName)),
       Template("</div></div><div class=\"code\">"),
       Part("codeHtml", args.codeHtml),
       Template("</div></div></div></body></html>") >>

\* main.js:195-318 (the interpolations, in order)
M_buildHtml(args) ==
    << Template("<!doctype html>...<style>... body { width: "),
       Part("width", args.width),
       Template("px; height: "),
       Part("height", args.height),
       Template("px; font-family: "),
       Part("font", args.font),
       Template("; padding: "),
       Part("padding", args.padding),
       Template("px;} .frame { width: "),
       Part("frameWidth", args.frameWidth),
       Template("px;} .code { font-size: "),
       Part("fontSize", args.fontSize),
       Template("px;}</style>...<div class=\"level\">Level: "),
       Part("difficulty", args.difficulty),
       Template("</div></div><div class=\"frame\">...<div class=\"code\">"),
       Part("codeHtml", args.codeHtml),
       Template("</div></div></body></html>") >>

Special == {"&", "<", ">", "\"", "'"}
Alphabet == Special \cup {"a"}
Strings == UNION {[1..n -> Alphabet] : n \in 0..MaxLen}
\* what the highlighter returns: markup with its own tags and entities
Markups == { <<"<", "pre", ">", "a", "&", "lt", ";", "</", "pre", ">">>,
             <<"<", "pre", ">", "</", "pre", ">">> }

HtmlInit ==
    /\ Idle
    /\ call \in [fn : {"buildHtml"}, title : Strings, label : Strings,
                 codeHtml : Markups]
    /\ ret = NoCall

\* scripts/render-snippet.js:286-295, with the DEFAULTS for the other options
CallBuildHtml ==
    /\ call.fn = "buildHtml" /\ ret = NoCall
    /\ ret' = [fn |-> "buildHtml",
               html |-> buildHtml([codeHtml |-> call.codeHtml, width |-> <<"960">>,
                                   padding |-> <<"64">>, background |-> <<"gradient">>,
                                   font |-> <<"monospace">>, title |-> call.title,
                                   themeName |-> call.label, fontSize |-> <<"16">>])]
    /\ UNCHANGED <<call, pipelineVars>>

\* main.js:171-180
M_CallBuildHtml ==
    /\ call.fn = "buildHtml" /\ ret = NoCall
    /\ ret' = [fn |-> "M_buildHtml",
               html |-> M_buildHtml([codeHtml |-> call.codeHtml, width |-> <<"1080">>,
                                     height |-> <<"1920">>, padding |-> <<"80">>,
                                     frameWidth |-> <<"920">>,
                                     font |-> <<"monospace">>, fontSize |-> <<"24">>,
                                     difficulty |-> call.label])]
    /\ UNCHANGED <<call, pipelineVars>>

HtmlNext == CallBuildHtml \/ M_CallBuildHtml

SpecHtml == HtmlInit /\ [][HtmlNext]_vars

\* each of the five characters replaced by its entity, character by character
Entity(c) ==
    CASE c = "&"  -> <<"&", "a", "m", "p", ";">>
      [] c = "<"  -> <<"&", "l", "t", ";">>
      [] c = ">"  -> <<"&", "g", "t", ";">>
      [] c = "\"" -> <<"&", "q", "u", "o", "t", ";">>
      [] c = "'"  -> <<"&", "#", "3", "9", ";">>
      [] OTHER    -> <<c>>

RECURSIVE Escaped(_)
Escaped(str) ==
    IF str = <<>> THEN <<>> ELSE Entity(Head(str)) \o Escaped(Tail(str))

Composed == ret.fn \in {"buildHtml", "M_buildHtml"}
PartsFrom(src) == {i \in 1..Len(ret.html) : ret.html[i].src = src}
SuppliedLabel(src) ==
    CASE src = "title" -> call.title
      [] src = "themeName" -> call.label
      [] src = "difficulty" -> call.label

\* C7: in the document of either variant, every title or label (window
\* title, theme label, difficulty label) is inserted with each of & < > " '
\* replaced by its entity, and the highlighter's markup is inserted
\* unchanged.
C7_LabelsEscaped ==
    Composed =>
        /\ \A src \in {"title", "themeName", "difficulty"} :
              \A i \in PartsFrom(src) :
                 /\ ret.html[i].text = Escaped(SuppliedLabel(src))
                 /\ \A k \in 1..Len(ret.html[i].text) :
                       ret.html[i].text[k] \notin (Special \ {"&"})
        /\ \A i \in PartsFrom("codeHtml") : ret.html[i].text = call.codeHtml

----------------------------------------------------------------------------
(* The height estimate (specification SpecHeight).                         *)
(* Numbers are exact: the font size is counted in half pixels, so the line *)
(* height fontSize * 1.6 is a whole number of tenths of a pixel; the       *)
(* paddings are whole pixels.                                              *)

MaxLines == 4
MaxFontHalfPx == 40

\* line 264: fontSize * 1.6, in tenths of a pixel
lineHeightOf(fontHalfPx) == fontHalfPx * 8

\* estimateHeight with a sign slip: the code block is subtracted
estimateHeight_Subtracted(lines, lineHeight, chromeHeight, codePadding, canvasPadding) ==
    LET codeHeight == lines * lineHeight + 10 * codePadding * 2
    IN  Ceil(10 * (chromeHeight + canvasPadding * 2 + 40) - codeHeight, 10)

\* lines 85-88; lineHeight in tenths of a pixel, the result in pixels
estimateHeight(lines, lineHeight, chromeHeight, codePadding, canvasPadding) ==
    LET codeHeight == lines * lineHeight + 10 * codePadding * 2
    IN  Ceil(codeHeight + 10 * (chromeHeight + canvasPadding * 2 + 40), 10)

\* lines 263-272
estimatedHeightOf(lineCount, fontHalfPx, padding) ==
    estimateHeight(lineCount, lineHeightOf(fontHalfPx), 40, 24, padding)

\* code.split("\n").length is at least 1
LineCounts == 1..MaxLines
\* toNumber accepts every finite number
FontSizes == (-MaxFontHalfPx)..MaxFontHalfPx
Paddings == {0, 64}

HeightInit ==
    /\ Idle
    /\ call \in [fn : {"estimateHeight"}, lines : LineCounts,
                 fontSize : FontSizes, padding : Paddings]
    /\ ret = NoCall

CallEstimateHeight ==
    /\ call.fn = "estimateHeight" /\ ret = NoCall
    /\ ret' = [fn |-> "estimateHeight",
               value |-> estimatedHeightOf(call.lines, call.fontSize, call.padding)]
    /\ UNCHANGED <<call, pipelineVars>>

HeightNext == CallEstimateHeight

SpecHeight == HeightInit /\ [][HeightNext]_vars

Estimated == ret.fn = "estimateHeight"

\* C8 as stated: for every line count and every font size, negative ones
\* included, the estimate does not decrease when the line count grows at a
\* fixed font size, nor when the font size grows at a fixed line count.
C8_MonotoneForAllFontSizes ==
    Estimated =>
        /\ \A l \in LineCounts : l >= call.lines =>
              estimatedHeightOf(l, call.fontSize, call.padding) >= ret.value
        /\ \A f \in FontSizes : f >= call.fontSize =>
              estimatedHeightOf(call.lines, f, call.padding) >= ret.value

\* C8 (amended): the estimate does not decrease when the font size grows at
\* a fixed line count, for every font size; it does not decrease when the
\* line count grows at a fixed font size provided the font size is not
\* negative.
C8_MonotoneForNonNegativeFontSizes ==
    Estimated =>
        /\ \A l \in LineCounts : (l >= call.lines /\ call.fontSize >= 0) =>
              estimatedHeightOf(l, call.fontSize, call.padding) >= ret.value
        /\ \A f \in FontSizes : f >= call.fontSize =>
              estimatedHeightOf(call.lines, f, call.padding) >= ret.value

\* a fractional line height, rounded up, below the estimate for more lines
C8_Witness ==
    /\ Estimated /\ call.lines = 2 /\ call.fontSize = 33 /\ call.padding = 64
    /\ ret.value = 309
    /\ estimatedHeightOf(3, 33, 64) = 336

----------------------------------------------------------------------------
(* Sizing of the rendering surface (specification SpecLayout):             *)
(* lines 263-284 of scripts/render-snippet.js for a drawn code text, font  *)
(* size (half pixels), padding, width and scale.                           *)

MaxCode == 3

Max(a, b) == IF a >= b THEN a ELSE b

RECURSIVE split(_, _)
\* String.prototype.split for a one-character separator
split(str, sep) ==
    IF \A i \in 1..Len(str) : str[i] # sep THEN <<str>>
    ELSE LET i == CHOOSE k \in 1..Len(str) :
                     str[k] = sep /\ \A j \in 1..(k - 1) : str[j] # sep
         IN  <<SubSeq(str, 1, i - 1)>> \o split(SubSeq(str, i + 1, Len(str)), sep)

\* a line count that leaves out the empty piece after a trailing newline
lineCountOf_NoTrailing(code) ==
    LET pieces == split(code, "\n")
    IN  IF Len(pieces) > 1 /\ pieces[Len(pieces)] = <<>>
           THEN Len(pieces) - 1 ELSE Len(pieces)

\* line 263: code.split("\n").length
lineCountOf(code) == Len(split(code, "\n"))

\* lines 280-284 with Math.min in place of Math.max
viewportOf_Min(width, padding, estimatedHeight, scale) ==
    [width |-> IF width + padding * 2 <= 320 THEN width + padding * 2 ELSE 320,
     height |-> IF estimatedHeight <= 480 THEN estimatedHeight ELSE 480,
     deviceScaleFactor |-> scale]

\* lines 280-284: the argument of page.setViewport
viewportOf(width, padding, estimatedHeight, scale) ==
    [width |-> Max(width + padding * 2, 320),
     height |-> Max(estimatedHeight, 480),
     deviceScaleFactor |-> scale]

CodeChars == {"a", "\n"}
Codes == UNION {[1..n -> CodeChars] : n \in 0..MaxCode}
Widths == {-50, 100, 960}
Scales == {1, 2}
\* font sizes large enough for the estimate to exceed the minimum height
LayoutFontSizes == FontSizes \cup {200, 201}

LayoutInit ==
    /\ Idle
    /\ call \in [fn : {"layout"}, code : Codes, fontSize : LayoutFontSizes,
                 padding : Paddings, width : Widths, scale : Scales]
    /\ ret = NoCall

CallLayout ==
    /\ call.fn = "layout" /\ ret = NoCall
    /\ LET lineCount == lineCountOf(call.code)
           estimatedHeight == estimatedHeightOf(lineCount, call.fontSize, call.padding)
       IN  ret' = [fn |-> "layout", lineCount |-> lineCount,
                   estimatedHeight |-> estimatedHeight,
                   viewport |-> viewportOf(call.width, call.padding,
                                           estimatedHeight, call.scale)]
    /\ UNCHANGED <<call, pipelineVars>>

LayoutNext == CallLayout

SpecLayout == LayoutInit /\ [][LayoutNext]_vars

LaidOut == ret.fn = "layout"
Newlines(code) == Cardinality({i \in 1..Len(code) : code[i] = "\n"})
\* the LayoutEstimate formula, in tenths of a pixel
LayoutEstimateTenths(lineCount, fontHalfPx, canvasPadding) ==
    lineCount * (fontHalfPx * 8) + 10 * (2 * 24 + 40 + 2 * canvasPadding + 40)

\* C15: the viewport passed to setViewport is at least as wide as
\* width + 2 * padding and at least as high as the height estimate, and its
\* device scale factor is the requested scale.
C15_ViewportCoversEstimate ==
    LaidOut =>
        /\ ret.viewport.width >= call.width + 2 * call.padding
        /\ 10 * ret.viewport.height >=
              LayoutEstimateTenths(Newlines(call.code) + 1, call.fontSize, call.padding)
        /\ ret.viewport.height >= ret.estimatedHeight
        /\ ret.viewport.deviceScaleFactor = call.scale

\* both dimensions above the minimum size of 320 x 480
C15_Witness ==
    /\ LaidOut /\ call.width = 960 /\ call.padding = 64 /\ call.scale = 2
    /\ ret.estimatedHeight > 480
    /\ ret.viewport = [width |-> 1088, height |-> ret.estimatedHeight,
                       deviceScaleFactor |-> 2]

\* C16: the estimate is ceil(lineCount * fontSize * 1.6 + 2 * 24 + 40 +
\* 2 * padding + 40) with lineCount the number of newline characters plus
\* one, so the empty text counts one line and a trailing newline one more.
C16_EstimateIsLayoutFormula ==
    LaidOut =>
        /\ ret.lineCount = Newlines(call.code) + 1
        /\ LET tenths == LayoutEstimateTenths(Newlines(call.code) + 1,
                                              call.fontSize, call.padding)
           IN  /\ 10 * ret.estimatedHeight >= tenths
               /\ 10 * (ret.estimatedHeight - 1) < tenths

\* two lines, the second one empty, at 16.5px: ceil(52.8 + 256) = 309
C16_Witness ==
    /\ LaidOut /\ call.code = <<"a", "\n">> /\ call.fontSize = 33 /\ call.padding = 64
    /\ ret.lineCount = 2
    /\ ret.estimatedHeight = 309

----------------------------------------------------------------------------
(* The numeric options (specification SpecArgs): parseArgs and toNumber.   *)
(* A token of argv is [flag, text]: flag is arg.startsWith("--"), text is  *)
(* arg.slice(2) for a flag and the argument itself otherwise.              *)

MaxArgs == 3

OptionKeys == {"width", "padding", "scale", "font-size", "fontSize", "fontsize"}
ValueTexts == {"720", "0", "abc", "Infinity", ""}

\* Number(value) for the values parseArgs can store
Number(value) ==
    CASE value = BareFlag   -> [finite |-> TRUE, n |-> 1]
      [] value = "720"      -> [finite |-> TRUE, n |-> 720]
      [] value = "0"        -> [finite |-> TRUE, n |-> 0]
      [] value = ""         -> [finite |-> TRUE, n |-> 0]
      [] value = "Infinity" -> [finite |-> FALSE, n |-> 0]
      [] OTHER              -> [finite |-> FALSE, n |-> 0]   \* NaN

\* lines 79-83
toNumber(value, fallback) ==
    IF value = Undefined THEN fallback
    ELSE LET num == Number(value)
         IN  IF num.finite THEN num.n ELSE fallback

RECURSIVE parseFrom(_, _, _)
\* lines 21-35: the loop of parseArgs from index i on
parseFrom(argv, i, o) ==
    IF i > Len(argv) THEN o
    ELSE LET arg == argv[i] IN
         IF arg.flag
            THEN LET key == arg.text
                     noNext == i + 1 > Len(argv) \/ argv[i + 1].text = ""
                                   \/ argv[i + 1].flag
                 IN  IF noNext
                        THEN parseFrom(argv, i + 1,
                                 [o EXCEPT !.named[key] = BareFlag])
                        ELSE parseFrom(argv, i + 2,
                                 [o EXCEPT !.named[key] = argv[i + 1].text])
            ELSE parseFrom(argv, i + 1,
                     [o EXCEPT !.positional = Append(@, arg.text)])

\* lines 19-37
parseArgs(argv) ==
    parseFrom(argv, 1, [positional |-> <<>>,
                        named |-> [k \in OptionKeys |-> Undefined]])

Tokens == [flag : {TRUE}, text : {"width", "padding", "scale", "font-size", "fontSize"}]
          \cup [flag : {FALSE}, text : ValueTexts]
Argvs == UNION {[1..n -> Tokens] : n \in 0..MaxArgs}

ArgsInit ==
    /\ Idle
    /\ call \in [fn : {"options"}, argv : Argvs]
    /\ ret = NoCall

\* lines 233 and 242-249
CallNumericOptions ==
    /\ call.fn = "options" /\ ret = NoCall
    /\ LET o == parseArgs(call.argv).named
       IN  ret' = [fn |-> "options",
                   width |-> toNumber(o["width"], 960),
                   padding |-> toNumber(o["padding"], 64),
                   scale |-> toNumber(o["scale"], 2),
                   fontSize |-> toNumber(
                       OrDefault(o["font-size"],
                                 OrDefault(o["fontSize"], o["fontsize"])), 16)]
    /\ UNCHANGED <<call, pipelineVars>>

ArgsNext == CallNumericOptions

SpecArgs == ArgsInit /\ [][ArgsNext]_vars

\* what the command line supplies for --key: the text after the last --key,
\* or BareFlag when none follows, or Undefined when the flag is absent
Occurrences(key) ==
    {i \in 1..Len(call.argv) : call.argv[i].flag /\ call.argv[i].text = key}
SuppliedFor(key) ==
    IF Occurrences(key) = {} THEN Undefined
    ELSE LET last == CHOOSE i \in Occurrences(key) :
                         \A j \in Occurrences(key) : j <= i
         IN  IF last = Len(call.argv) \/ call.argv[last + 1].flag
                   \/ call.argv[last + 1].text = ""
                THEN BareFlag
                ELSE call.argv[last + 1].text
FiniteTexts == {"720", "0"}
\* the documented default unless a finite number is supplied
DefaultUnlessFinite(supplied, default) ==
    IF supplied \in FiniteTexts THEN Number(supplied).n ELSE default

\* C17: width, padding, scale and font-size are 960, 64, 2 and 16 when the
\* flag is absent, given without a value, or given a value that is not a
\* finite number; a finite number supplied is used as given.
C17_DefaultsUnlessFinite ==
    ret.fn = "options" =>
        /\ ret.width = DefaultUnlessFinite(SuppliedFor("width"), 960)
        /\ ret.padding = DefaultUnlessFinite(SuppliedFor("padding"), 64)
        /\ ret.scale = DefaultUnlessFinite(SuppliedFor("scale"), 2)
        /\ ret.fontSize =
              DefaultUnlessFinite(
                  OrDefault(SuppliedFor("font-size"), SuppliedFor("fontSize")), 16)

----------------------------------------------------------------------------
(* The start of the b-roll segment (specification SpecSegment):            *)
(* main.js:112-116. Durations are whole seconds; Math.random() is          *)
(* random / RandomDen, and startTime is kept multiplied by RandomDen.      *)

MaxTotalDuration == 15
RandomDen == 4

\* DEFAULTS.videoDuration
M_videoDuration == 10

\* lines 115-116, times RandomDen
startTimeOf(totalDuration, duration, random) ==
    LET maxStartTime == Max(0, totalDuration - duration)
    IN  random * maxStartTime

SegmentInit ==
    /\ Idle
    /\ call \in [fn : {"segment"}, totalDuration : 1..MaxTotalDuration,
                 random : 0..(RandomDen - 1)]
    /\ ret = NoCall

CallExtractRandomVideoSegment ==
    /\ call.fn = "segment" /\ ret = NoCall
    /\ ret' = [fn |-> "segment", duration |-> M_videoDuration,
               startTime |-> startTimeOf(call.totalDuration, M_videoDuration,
                                         call.random)]
    /\ UNCHANGED <<call, pipelineVars>>

SegmentNext == CallExtractRandomVideoSegment

SpecSegment == SegmentInit /\ [][SegmentNext]_vars

\* C18: for every total duration and every random draw the start time is not
\* negative and the segment ends within the background video.
C18_SegmentWithinVideo ==
    ret.fn = "segment" =>
        /\ ret.startTime >= 0
        /\ ret.startTime + RandomDen * ret.duration <= RandomDen * call.totalDuration

====
